---- MODULE Spec2Model ----
(***************************************************************************)
(* Model of scripts/analyze_codebase.py: the per-language signature        *)
(* extraction (PATTERNS, extract_functions), the directory traversal that  *)
(* calls it (generate_tree) and the table rendering of main.               *)
(*                                                                         *)
(* Text is a sequence of one-character strings.  A pattern of PATTERNS is  *)
(* a tree of the regular-expression constructs the source uses, and Match  *)
(* runs it the way Python's backtracking matcher does: greedy and lazy     *)
(* repetitions, alternatives and optional parts are tried in the matcher's *)
(* order and the first way that lets the whole pattern match is taken.     *)
(***************************************************************************)
EXTENDS Integers, Sequences, FiniteSets, TLC

------------------------------------------------------------------------------
(* Characters and character classes                                        *)

Lower == {"a","b","c","d","e","f","g","h","i","j","k","l","m",
          "n","o","p","q","r","s","t","u","v","w","x","y","z"}
Upper == {"A","B","C","D","E","F","G","H","I","J","K","L","M",
          "N","O","P","Q","R","S","T","U","V","W","X","Y","Z"}
Digit == {"0","1","2","3","4","5","6","7","8","9"}

\* what str.split() and str.strip() without arguments, and \s, treat as space
Whitespace == {" ", "\t", "\n", "\r", "\f"}

\* the character classes of PATTERNS; any other class name is a literal
InCls(ch, cls) ==
  CASE cls = "\\s"            -> ch \in Whitespace
    [] cls = "."              -> TRUE
    [] cls = "[a-zA-Z_]"      -> ch \in Lower \cup Upper \cup {"_"}
    [] cls = "[a-zA-Z0-9_]"   -> ch \in Lower \cup Upper \cup Digit \cup {"_"}
    [] cls = "[a-zA-Z0-9_<>]" -> ch \in Lower \cup Upper \cup Digit \cup {"_", "<", ">"}
    [] cls = "[\\w<>\\[\\]]"  -> ch \in Lower \cup Upper \cup Digit \cup {"_", "<", ">", "[", "]"}
    [] cls = "[^)]"           -> ch # ")"
    [] OTHER                  -> ch = cls

------------------------------------------------------------------------------
(* Pattern constructors                                                    *)

One(cls)      == [t |-> "one", cls |-> cls]
Star(cls)     == [t |-> "rep", cls |-> cls, min |-> 0, lazy |-> FALSE]
Plus(cls)     == [t |-> "rep", cls |-> cls, min |-> 1, lazy |-> FALSE]
LazyStar(cls) == [t |-> "rep", cls |-> cls, min |-> 0, lazy |-> TRUE]
Cat(rs)       == [t |-> "cat", rs |-> rs]
Alt(rs)       == [t |-> "alt", rs |-> rs]
Opt(r)        == [t |-> "opt", r |-> r]
Grp(n, r)     == [t |-> "grp", n |-> n, r |-> r]
Word(w)       == Cat([k \in 1..Len(w) |-> One(w[k])])

\* [a-zA-Z_][a-zA-Z0-9_]*
Ident  == Cat(<<One("[a-zA-Z_]"), Star("[a-zA-Z0-9_]")>>)
\* [a-zA-Z0-9_]+
Ident0 == Plus("[a-zA-Z0-9_]")

------------------------------------------------------------------------------
(* The backtracking matcher                                                *)

\* a capture group that did not take part in the match (None in Python)
NoGroup == [on |-> FALSE, txt |-> << >>]

RECURSIVE NoGroups(_)
\* the groups before matching starts: n groups, none of them set
NoGroups(n) == IF n = 0 THEN << >> ELSE Append(NoGroups(n - 1), NoGroup)

\* no match
Fail == [ok |-> FALSE, pos |-> 0, caps |-> << >>]

\* the end of capture group n, which began at position from
GrpEnd(n, from) == [t |-> "end", n |-> n, from |-> from]

RECURSIVE Run(_, _, _)
\* how many characters of s from position i on are in class cls ("." takes
\* all that is left)
Run(s, i, cls) ==
  IF cls = "." THEN Len(s) + 1 - i
  ELSE IF i <= Len(s) /\ InCls(s[i], cls) THEN 1 + Run(s, i + 1, cls) ELSE 0

RECURSIVE Match(_, _, _, _)
RECURSIVE TryRep(_, _, _, _, _, _)
RECURSIVE TryAlt(_, _, _, _, _, _)

\* the first way, in the matcher's order of preference, in which the
\* constructs todo match s one after the other from position i on: where
\* the match ends and what the groups hold, or Fail
Match(todo, s, i, caps) ==
  IF todo = << >> THEN [ok |-> TRUE, pos |-> i, caps |-> caps]
  ELSE
    LET r    == Head(todo)
        rest == Tail(todo)
    IN
    CASE r.t = "one" ->
           IF i <= Len(s) /\ InCls(s[i], r.cls) THEN Match(rest, s, i + 1, caps)
           ELSE Fail
      [] r.t = "rep" ->
           LET m == Run(s, i, r.cls) IN
           IF m < r.min THEN Fail
           ELSE IF r.lazy THEN TryRep(rest, s, caps, i + r.min, i + m, 1)
           ELSE TryRep(rest, s, caps, i + m, i + r.min, -1)
      [] r.t = "cat" -> Match(r.rs \o rest, s, i, caps)
      [] r.t = "alt" -> TryAlt(r.rs, 1, rest, s, i, caps)
      [] r.t = "opt" ->
           LET with == Match(<< r.r >> \o rest, s, i, caps) IN
           IF with.ok THEN with ELSE Match(rest, s, i, caps)
      [] r.t = "grp" -> Match(<< r.r, GrpEnd(r.n, i) >> \o rest, s, i, caps)
      [] r.t = "end" ->
           Match(rest, s, i,
                 [caps EXCEPT ![r.n] = [on |-> TRUE, txt |-> SubSeq(s, r.from, i - 1)]])

\* a repetition that may end at at, at + step, ..., last: the first of these
\* ends from which the rest matches (step 1: lazy, step -1: greedy)
TryRep(rest, s, caps, at, last, step) ==
  LET here == Match(rest, s, at, caps) IN
  IF here.ok THEN here
  ELSE IF at = last THEN Fail
  ELSE TryRep(rest, s, caps, at + step, last, step)

\* the alternatives rs[k], rs[k+1], ...: the first that lets the rest match
TryAlt(rs, k, rest, s, i, caps) ==
  IF k > Len(rs) THEN Fail
  ELSE LET here == Match(<< rs[k] >> \o rest, s, i, caps) IN
       IF here.ok THEN here ELSE TryAlt(rs, k + 1, rest, s, i, caps)

\* the match of pattern p on s that starts at position i
MatchAt(p, s, i) == Match(<< p.re >>, s, i, NoGroups(p.groups))

RECURSIVE Scan(_, _, _, _)
\* the scan of re.finditer from position from on: the leftmost position
\* where the pattern matches, the match there, then on from its end
Scan(p, s, hits, from) ==
  LET ahead == { i \in hits : i >= from } IN
  IF ahead = {} THEN << >>
  ELSE LET i == CHOOSE x \in ahead : \A y \in ahead : x <= y
           m == MatchAt(p, s, i)
       IN << m.caps >> \o Scan(p, s, hits, IF m.pos > i THEN m.pos ELSE i + 1)

\* re.finditer(pattern, content): the groups() of the non-overlapping matches,
\* leftmost first
FindIter(p, s) ==
  Scan(p, s, { i \in 1..(Len(s) + 1) : MatchAt(p, s, i).ok }, 1)

------------------------------------------------------------------------------
(* PATTERNS: one matching rule per language, compiled with MULTILINE and   *)
(* DOTALL (so "." is every character, newline included)                    *)

WS  == Star("\\s")
WS1 == Plus("\\s")
\* \((.*?)\) with the text between the parentheses captured as group n
ParenLazy(n) == Cat(<<One("("), Grp(n, LazyStar(".")), One(")")>>)
\* \(([^)]*)\) with the text between the parentheses captured as group n
ParenNot(n)  == Cat(<<One("("), Grp(n, Star("[^)]")), One(")")>>)

\* def\s+([a-zA-Z_][a-zA-Z0-9_]*)\s*\((.*?)\)(?:\s*->\s*(.*?))?:
PatPython ==
  Cat(<<Word(<<"d","e","f">>), WS1, Grp(1, Ident), WS, ParenLazy(2),
        Opt(Cat(<<WS, Word(<<"-",">">>), WS, Grp(3, LazyStar("."))>>)),
        One(":")>>)

\* (?:function\s+(..)\s*\((.*?)\)|const\s+(..)\s*=\s*(?:async\s*)?\((.*?)\)\s*=>
\*    |(..)\s*\((.*?)\)\s*\{)
PatJavascript ==
  Alt(<<Cat(<<Word(<<"f","u","n","c","t","i","o","n">>), WS1, Grp(1, Ident), WS,
              ParenLazy(2)>>),
        Cat(<<Word(<<"c","o","n","s","t">>), WS1, Grp(3, Ident), WS, One("="), WS,
              Opt(Cat(<<Word(<<"a","s","y","n","c">>), WS>>)), ParenLazy(4), WS,
              Word(<<"=",">">>)>>),
        Cat(<<Grp(5, Ident), WS, ParenLazy(6), WS, One("{")>>)>>)

\* fn\s+(..)\s*(?:<.*?>)?\s*\((.*?)\)(?:\s*->\s*(.*?))?\s*\{
PatRust ==
  Cat(<<Word(<<"f","n">>), WS1, Grp(1, Ident), WS,
        Opt(Cat(<<One("<"), LazyStar("."), One(">")>>)), WS, ParenLazy(2),
        Opt(Cat(<<WS, Word(<<"-",">">>), WS, Grp(3, LazyStar("."))>>)),
        WS, One("{")>>)

\* func\s+(..)\s*\((.*?)\)\s*(.*?)?\{
PatGo ==
  Cat(<<Word(<<"f","u","n","c">>), WS1, Grp(1, Ident), WS, ParenLazy(2), WS,
        Opt(Grp(3, LazyStar("."))), One("{")>>)

\* (?:[a-zA-Z0-9_<>]+)\s+(..)\s*\((.*?)\)\s*(?:async)?\s*\{
PatDart ==
  Cat(<<Plus("[a-zA-Z0-9_<>]"), WS1, Grp(1, Ident), WS, ParenLazy(2), WS,
        Opt(Word(<<"a","s","y","n","c">>)), WS, One("{")>>)

\* (?:public|protected|private|static|\s) +[\w\<\>\[\]]+\s+([a-zA-Z0-9_]+)\s*
\*    \(([^)]*)\)\s*(?:throws\s.*?)?\{
PatJava ==
  Cat(<<Alt(<<Word(<<"p","u","b","l","i","c">>),
              Word(<<"p","r","o","t","e","c","t","e","d">>),
              Word(<<"p","r","i","v","a","t","e">>),
              Word(<<"s","t","a","t","i","c">>),
              One("\\s")>>),
        Plus(" "), Plus("[\\w<>\\[\\]]"), WS1, Grp(1, Ident0), WS, ParenNot(2), WS,
        Opt(Cat(<<Word(<<"t","h","r","o","w","s">>), One("\\s"), LazyStar(".")>>)),
        One("{")>>)

\* fun\s+([a-zA-Z0-9_]+)\s*\(([^)]*)\)(?:\s*:\s*[a-zA-Z0-9_<>]+)?\s*\{
PatKotlin ==
  Cat(<<Word(<<"f","u","n">>), WS1, Grp(1, Ident0), WS, ParenNot(2),
        Opt(Cat(<<WS, One(":"), WS, Plus("[a-zA-Z0-9_<>]")>>)), WS, One("{")>>)

\* func\s+([a-zA-Z0-9_]+)\s*\(([^)]*)\)(?:\s*->\s*[a-zA-Z0-9_<>]+)?\s*\{
PatSwift ==
  Cat(<<Word(<<"f","u","n","c">>), WS1, Grp(1, Ident0), WS, ParenNot(2),
        Opt(Cat(<<WS, Word(<<"-",">">>), WS, Plus("[a-zA-Z0-9_<>]")>>)), WS,
        One("{")>>)

\* ([a-zA-Z0-9_]+)\s+([a-zA-Z0-9_]+)\s*\(([^)]*)\)\s*\{
PatC ==
  Cat(<<Grp(1, Ident0), WS1, Grp(2, Ident0), WS, ParenNot(3), WS, One("{")>>)

\* ([a-zA-Z0-9_]+)\s+([a-zA-Z0-9_]+)\s*\(([^)]*)\)\s*(?:const)?\s*\{
PatCpp ==
  Cat(<<Grp(1, Ident0), WS1, Grp(2, Ident0), WS, ParenNot(3), WS,
        Opt(Word(<<"c","o","n","s","t">>)), WS, One("{")>>)

\* function\s+([a-zA-Z0-9_]+)\s*\(([^)]*)\)\s*(?::\s*[a-zA-Z0-9_<>]+)?\s*\{
PatPhp ==
  Cat(<<Word(<<"f","u","n","c","t","i","o","n">>), WS1, Grp(1, Ident0), WS,
        ParenNot(2), WS, Opt(Cat(<<One(":"), WS, Plus("[a-zA-Z0-9_<>]")>>)), WS,
        One("{")>>)

Langs == {"python", "javascript", "typescript", "rust", "go", "dart", "java",
          "kotlin", "swift", "c", "cpp", "php"}

\* the rule of each language and the number of capture groups it has
PATTERNS ==
  [lang \in Langs |->
     CASE lang = "python"     -> [re |-> PatPython,     groups |-> 3]
       [] lang = "javascript" -> [re |-> PatJavascript, groups |-> 6]
       [] lang = "typescript" -> [re |-> PatJavascript, groups |-> 6]
       [] lang = "rust"       -> [re |-> PatRust,       groups |-> 3]
       [] lang = "go"         -> [re |-> PatGo,         groups |-> 3]
       [] lang = "dart"       -> [re |-> PatDart,       groups |-> 2]
       [] lang = "java"       -> [re |-> PatJava,       groups |-> 2]
       [] lang = "kotlin"     -> [re |-> PatKotlin,     groups |-> 2]
       [] lang = "swift"      -> [re |-> PatSwift,      groups |-> 2]
       [] lang = "c"          -> [re |-> PatC,          groups |-> 3]
       [] lang = "cpp"        -> [re |-> PatCpp,        groups |-> 3]
       [] lang = "php"        -> [re |-> PatPhp,        groups |-> 2]]

------------------------------------------------------------------------------
(* String helpers of extract_functions                                     *)

RECURSIVE LStrip(_)
LStrip(s) == IF s # << >> /\ Head(s) \in Whitespace THEN LStrip(Tail(s)) ELSE s

RECURSIVE RStrip(_)
RStrip(s) ==
  IF s # << >> /\ s[Len(s)] \in Whitespace THEN RStrip(SubSeq(s, 1, Len(s) - 1)) ELSE s

\* s.strip()
Strip(s) == RStrip(LStrip(s))

RECURSIVE Split(_)
\* s.split(): the maximal runs of non-whitespace characters of s, in order
Split(s) ==
  LET t == LStrip(s)
      n == IF t = << >> THEN 0
           ELSE CHOOSE k \in 1..Len(t) :
                  /\ \A j \in 1..k : t[j] \notin Whitespace
                  /\ (k = Len(t) \/ t[k + 1] \in Whitespace)
  IN IF t = << >> THEN << >>
     ELSE << SubSeq(t, 1, n) >> \o Split(SubSeq(t, n + 1, Len(t)))

RECURSIVE Join(_)
\* " ".join(ws)
Join(ws) ==
  IF ws = << >> THEN << >>
  ELSE IF Len(ws) = 1 THEN ws[1]
  ELSE ws[1] \o << " " >> \o Join(Tail(ws))

\* Collapse with the inner whitespace runs left as they are: s.strip()
Collapse_StripOnly(s) == Strip(s)

\* " ".join(s.split())
Collapse(s) == Join(Split(s))

------------------------------------------------------------------------------
(* extract_functions                                                       *)

\* Python's truth value of a group: neither None nor the empty string
Truthy(g) == g.on /\ g.txt # << >>

RECURSIVE NonEmptyGroups_All(_)
\* NonEmptyGroups without the "if g" filter: list(match.groups()), None as ""
NonEmptyGroups_All(caps) ==
  IF caps = << >> THEN << >>
  ELSE << Head(caps).txt >> \o NonEmptyGroups_All(Tail(caps))

RECURSIVE NonEmptyGroups(_)
\* [g for g in match.groups() if g]
NonEmptyGroups(caps) ==
  IF caps = << >> THEN << >>
  ELSE (IF Truthy(Head(caps)) THEN << Head(caps).txt >> ELSE << >>)
       \o NonEmptyGroups(Tail(caps))

\* Signature without the c/cpp branch: name, arguments, return type in the
\* order of the groups for every language
Signature_Default(groups, lang) ==
  [name   |-> Strip(groups[1]),
   args   |-> IF Len(groups) > 1 THEN Collapse(Strip(groups[2])) ELSE << >>,
   return |-> IF Len(groups) > 2 THEN Collapse(Strip(groups[3])) ELSE << >>]

\* the body of the loop for one match whose non-empty groups are groups
Signature(groups, lang) ==
  LET cfam == lang \in {"c", "cpp"} /\ Len(groups) >= 3
      func_name == IF cfam THEN Strip(groups[2]) ELSE Strip(groups[1])
      args == IF cfam THEN Strip(groups[3])
              ELSE IF lang \notin {"c", "cpp"} /\ Len(groups) > 1 THEN Strip(groups[2])
              ELSE << >>
      ret  == IF cfam THEN Strip(groups[1])
              ELSE IF lang \notin {"c", "cpp", "java"} /\ Len(groups) > 2
                     THEN Strip(groups[3])
              ELSE << >>
  IN [name |-> func_name, args |-> Collapse(args), return |-> Collapse(ret)]

RECURSIVE Collect(_, _)
\* the loop over the matches: a match with no non-empty group adds nothing
Collect(matches, lang) ==
  IF matches = << >> THEN << >>
  ELSE LET groups == NonEmptyGroups(Head(matches)) IN
       (IF groups # << >> THEN << Signature(groups, lang) >> ELSE << >>)
       \o Collect(Tail(matches), lang)

\* no matching failure
NoFail == 0 - 1

\* the matches the iterator hands over before it raises: all of them when
\* nothing fails, the first fail of them when the matcher raises on being
\* asked for the next one
Yielded(matches, fail) ==
  IF fail = NoFail \/ fail >= Len(matches) THEN matches ELSE SubSeq(matches, 1, fail)

\* extract_functions(content, lang); fail says where, if anywhere, matching
\* raises.  The except clause swallows the exception and the function returns
\* the list as it stands.
extract_functions(content, lang, fail) ==
  IF lang \notin DOMAIN PATTERNS THEN << >>
  ELSE Collect(Yielded(FindIter(PATTERNS[lang], content), fail), lang)

------------------------------------------------------------------------------
(* Configuration: the extension tables and the size limit                  *)

IGNORE_EXTS ==
  {".png", ".jpg", ".jpeg", ".gif", ".ico", ".svg", ".woff", ".woff2",
   ".ttf", ".eot", ".mp4", ".webm", ".mp3", ".wav", ".zip", ".tar", ".gz",
   ".pyc", ".exe", ".dll", ".so", ".dylib", ".lock", ".log", ".map",
   ".DS_Store", ".class", ".o", ".obj"}

MAX_FILE_SIZE_BYTES == 100 * 1024

KnownExts == {".py", ".js", ".jsx", ".mjs", ".ts", ".tsx", ".rs", ".go", ".dart",
              ".java", ".kt", ".kts", ".swift", ".c", ".h", ".cpp", ".hpp", ".cc",
              ".php"}

LANGUAGE_MAP ==
  [ext \in KnownExts |->
     CASE ext = ".py"                       -> "python"
       [] ext \in {".js", ".jsx", ".mjs"}   -> "javascript"
       [] ext \in {".ts", ".tsx"}           -> "typescript"
       [] ext = ".rs"                       -> "rust"
       [] ext = ".go"                       -> "go"
       [] ext = ".dart"                     -> "dart"
       [] ext = ".java"                     -> "java"
       [] ext \in {".kt", ".kts"}           -> "kotlin"
       [] ext = ".swift"                    -> "swift"
       [] ext \in {".c", ".h"}              -> "c"
       [] ext \in {".cpp", ".hpp", ".cc"}   -> "cpp"
       [] ext = ".php"                      -> "php"]

\* what LANGUAGE_MAP.get answers for an extension it does not hold
None == "None"

\* get_language with a default language for the extensions it does not hold
get_language_Default(ext) ==
  IF ext \in DOMAIN LANGUAGE_MAP THEN LANGUAGE_MAP[ext] ELSE "python"

get_language(ext) == IF ext \in DOMAIN LANGUAGE_MAP THEN LANGUAGE_MAP[ext] ELSE None

\* Top25 keeping the end of the list: funcs[-25:]
Top25_Tail(funcs) ==
  SubSeq(funcs, IF Len(funcs) < 25 THEN 1 ELSE Len(funcs) - 24, Len(funcs))

\* funcs[:25]
Top25(funcs) == SubSeq(funcs, 1, IF Len(funcs) < 25 THEN Len(funcs) ELSE 25)

------------------------------------------------------------------------------
(* Inputs: the declarations and the files the model runs the program on    *)

MaxFiles == 2
MaxDecls == 26

Names    == { <<"a","d","d">>, <<"s","u","m">> }
ArgTexts == { << >>, <<" ">>, <<"a",","," ","b">>, <<"i","n","t"," ","a",","," ","i","n","t"," ","b">>, <<"a",",","\n","\t","b">> }
RetTexts == { << >>, <<"i","n","t">> }
Styles   == { "plain", "function", "arrow", "method" }

\* the single declarations extract_functions is run on: language, surface
\* style (the three of the javascript rule), name, argument text and
\* return type
Decls ==
  { d \in [lang : Langs, style : Styles, name : Names, args : ArgTexts, ret : RetTexts] :
      IF d.lang \in {"javascript", "typescript"}
        THEN d.style # "plain" /\ d.ret = << >>
        ELSE d.style = "plain" }

\* the type written before the name where the language wants one
TypeOf(d) == IF d.ret = << >> THEN <<"v","o","i","d">> ELSE d.ret
\* name(args)
Call(d) == d.name \o <<"(">> \o d.args \o <<")">>
\* the trailing annotation: sep and the return type, when there is one
Annot(d, sep) == IF d.ret = << >> THEN << >> ELSE sep \o d.ret

\* the text of declaration d in its language's idiom
DeclText(d) ==
  CASE d.lang = "python" -> <<"d","e","f"," ">> \o Call(d) \o Annot(d, <<" ","-",">"," ">>) \o <<":">>
    [] d.lang \in {"javascript", "typescript"} ->
         ( CASE d.style = "function" -> <<"f","u","n","c","t","i","o","n"," ">> \o Call(d) \o <<" ","{">>
             [] d.style = "arrow"    -> <<"c","o","n","s","t"," ">> \o d.name \o <<" ","="," ","(">> \o d.args \o <<")"," ","=",">"," ","{">>
             [] OTHER                 -> Call(d) \o <<" ","{">> )
    [] d.lang = "rust"   -> <<"f","n"," ">> \o Call(d) \o Annot(d, <<" ","-",">"," ">>) \o <<" ","{">>
    [] d.lang = "go"     -> <<"f","u","n","c"," ">> \o Call(d) \o Annot(d, <<" ">>) \o <<" ","{">>
    [] d.lang = "dart"   -> TypeOf(d) \o <<" ">> \o Call(d) \o <<" ","{">>
    [] d.lang = "java"   -> <<"p","u","b","l","i","c"," ">> \o TypeOf(d) \o <<" ">> \o Call(d) \o <<" ","{">>
    [] d.lang = "kotlin" -> <<"f","u","n"," ">> \o Call(d) \o Annot(d, <<":"," ">>) \o <<" ","{">>
    [] d.lang = "swift"  -> <<"f","u","n","c"," ">> \o Call(d) \o Annot(d, <<" ","-",">"," ">>) \o <<" ","{">>
    [] d.lang = "php"    -> <<"f","u","n","c","t","i","o","n"," ">> \o Call(d) \o Annot(d, <<":"," ">>) \o <<" ","{">>
    [] OTHER             -> TypeOf(d) \o <<" ">> \o Call(d) \o <<" ","{">>

\* content that is no single declaration
NoDecl == [lang |-> None, style |-> "plain", name |-> << >>, args |-> << >>, ret |-> << >>]

ExtraTexts ==
  { << >>,
    <<"i","f"," ","(","x",")"," ","{">>,
    <<"d","e","f"," ","f","(","a",")",":","\n"," "," ","p","a","s","s","\n","d","e","f"," ","g","(","b",")"," ","-",">"," ","i","n","t",":">>,
    <<"i","n","t"," ","f","(","i","n","t"," ","a",")"," ","{","\n","}","\n","v","o","i","d"," ","g","(","v","o","i","d",")"," ","{">>,
    <<"f","u","n","c","t","i","o","n"," ","f","(","a",")"," ","{","\n"," "," ","g","(","a",")"," ","{">> }

\* where the matcher may raise: not at all, before the first match, after it
FailPoints == { NoFail, 0, 1 }

Letters == << "a", "b", "c", "d", "e", "f" >>
\* the name of the i-th declaration of a generated file
NameOf(i) == << Letters[((i - 1) \div 6) + 1], Letters[((i - 1) % 6) + 1] >>

RECURSIVE ManyDecls(_)
\* a python source of n one-line functions, named NameOf(1) .. NameOf(n)
ManyDecls(n) ==
  IF n = 0 THEN << >>
  ELSE ManyDecls(n - 1) \o <<"d","e","f"," ">> \o NameOf(n) \o <<"(","x",")",":","\n">>

Exts       == { ".py", ".txt", ".png" }
Sizes      == { MAX_FILE_SIZE_BYTES - 1, MAX_FILE_SIZE_BYTES, MAX_FILE_SIZE_BYTES + 1 }
DeclCounts == { 0, 2, MaxDecls }

\* whether generate_tree hands file f to extract_functions
Extracts(f) ==
  /\ f.ext \notin IGNORE_EXTS
  /\ ~f.io
  /\ f.size < MAX_FILE_SIZE_BYTES
  /\ f.ext \in DOMAIN LANGUAGE_MAP

\* the files os.walk may yield: extension, size in bytes, number of
\* declarations in the content (the bytes beyond them are blank filler),
\* whether getsize/open/read raises, and where matching raises (only a file
\* that is matched can fail in matching)
Files ==
  { f \in [ext : Exts, size : Sizes, decls : DeclCounts, io : BOOLEAN, fail : FailPoints] :
      f.fail # NoFail => Extracts(f) }

------------------------------------------------------------------------------
(* State                                                                   *)

VARIABLES
  pc,          \* where the program is
  decl,        \* extract_functions alone: the declaration the content holds
  content,     \*   its content argument
  lang,        \*   its lang argument
  functions,   \*   the list it returned
  raised,      \*   whether matching raised on the way
  tree_lines,  \* generate_tree: the tree listing
  files_data,  \*   the analysis list
  walked,      \*   the number of files os.walk has yielded
  cur,         \*   the locals of the latest iteration of the file loop
  func,        \* main: the signature being printed
  row          \*   the table row printed for it

vars == << pc, decl, content, lang, functions, raised,
           tree_lines, files_data, walked, cur, func, row >>

NoFile == [name |-> << 0, "" >>, ext |-> "", size |-> 0, decls |-> 0, io |-> FALSE,
           listed |-> FALSE, lang |-> None, called |-> FALSE, raised |-> FALSE,
           funcs |-> << >>]
NoFunc == [name |-> << >>, args |-> << >>, return |-> << >>]
NoRow  == [fn |-> << >>, inputs |-> << >>, outputs |-> << >>]

ExtractIdle == /\ decl = NoDecl /\ content = << >> /\ lang = None
               /\ functions = << >> /\ raised = FALSE
WalkIdle    == /\ tree_lines = << >> /\ files_data = << >> /\ walked = 0 /\ cur = NoFile
RenderIdle  == /\ func = NoFunc /\ row = NoRow

------------------------------------------------------------------------------
(* extract_functions on its own                                            *)

InitExtract ==
  /\ pc = "call"
  /\ \/ \E d \in Decls : decl = d /\ content = DeclText(d)
     \/ decl = NoDecl /\ content \in ExtraTexts
  /\ lang \in Langs
  /\ functions = << >>
  /\ raised = FALSE
  /\ WalkIdle
  /\ RenderIdle

\* one call of extract_functions(content, lang)
ExtractCall ==
  /\ pc = "call"
  /\ \E fail \in FailPoints :
       /\ functions' = extract_functions(content, lang, fail)
       /\ raised' = (fail # NoFail)
  /\ pc' = "returned"
  /\ UNCHANGED << decl, content, lang, tree_lines, files_data, walked, cur, func, row >>

NextExtract == ExtractCall

SpecExtract == InitExtract /\ [][NextExtract]_vars

------------------------------------------------------------------------------
(* generate_tree: the loop over the files os.walk yields                   *)
(*                                                                         *)
(* The walk is over the files of the start directory, one Visit per file   *)
(* in the order os.walk hands them over.  A file is named by its position  *)
(* in the walk and its extension.  The folder lines of the listing, which  *)
(* are written for sub-directories only and touch no file, are left out.   *)
(* cur keeps the locals of the latest iteration (ext, lang, funcs, and     *)
(* what the iteration did), which the next iteration overwrites.           *)

Init ==
  /\ pc = "walk"
  /\ tree_lines = << >>
  /\ files_data = << >>
  /\ walked = 0
  /\ cur = NoFile
  /\ ExtractIdle
  /\ RenderIdle

\* one iteration of "for f in files" on file f, the walked+1-th of the walk
VisitFile(f) ==
  LET name    == << walked + 1, f.ext >>
      ignored == f.ext \in IGNORE_EXTS
      l       == get_language(f.ext)
      reads   == ~f.io /\ f.size < MAX_FILE_SIZE_BYTES
      calls   == reads /\ l # None
      funcs   == IF calls THEN extract_functions(ManyDecls(f.decls), l, f.fail)
                 ELSE << >>
  IN /\ walked' = walked + 1
     /\ tree_lines' = IF ignored THEN tree_lines
                      ELSE Append(tree_lines, [icon |-> "file", name |-> name])
     /\ files_data' = IF ~ignored /\ funcs # << >>
                        THEN Append(files_data, [path |-> name, functions |-> Top25(funcs)])
                        ELSE files_data
     /\ cur' = [name |-> name, ext |-> f.ext, size |-> f.size, decls |-> f.decls,
                io |-> f.io, listed |-> ~ignored,
                lang |-> IF ignored THEN None ELSE l,
                called |-> ~ignored /\ calls,
                raised |-> ~ignored /\ calls /\ f.fail # NoFail,
                funcs |-> IF ignored THEN << >> ELSE funcs]

Visit ==
  /\ pc = "walk"
  /\ walked < MaxFiles
  /\ \E f \in Files : VisitFile(f)
  /\ UNCHANGED << pc, decl, content, lang, functions, raised, func, row >>

\* os.walk is exhausted: return tree_lines, files_data
Return ==
  /\ pc = "walk"
  /\ pc' = "done"
  /\ UNCHANGED << decl, content, lang, functions, raised,
                  tree_lines, files_data, walked, cur, func, row >>

Next == Visit \/ Return

Spec == Init /\ [][Next]_vars

------------------------------------------------------------------------------
(* main: one row of the signature table                                    *)

MaxCell == 52
MaxBars == 2
MaxTail == 2

\* n times the character c
Repeat(c, n) == [k \in 1..n |-> c]

\* the argument texts rows are printed for: letters, then bars, then letters
ArgCells ==
  { Repeat("a", p) \o Repeat("|", q) \o Repeat("b", r) :
      p \in 0..MaxCell, q \in 0..MaxBars, r \in 0..MaxTail }
RetCells == { << >>, <<"i","n","t">>, <<"a","|","b">> }

RECURSIVE Escape(_)
\* s.replace('|', '\|')
Escape(s) ==
  IF s = << >> THEN << >>
  ELSE (IF Head(s) = "|" THEN << "\\", "|" >> ELSE << Head(s) >>) \o Escape(Tail(s))

\* Row with the text cut before its bars are escaped
Row_TruncateFirst(f) ==
  LET cut == IF Len(f.args) > 50 THEN SubSeq(f.args, 1, 47) \o <<".", ".", ".">>
             ELSE f.args
  IN [fn |-> f.name, inputs |-> Escape(cut), outputs |-> Escape(f.return)]

\* the cells of the row main prints for func
Row(f) ==
  LET args == Escape(f.args)
      ret  == Escape(f.return)
  IN [fn      |-> f.name,
      inputs  |-> IF Len(args) > 50 THEN SubSeq(args, 1, 47) \o <<".",".",".">> ELSE args,
      outputs |-> ret]

InitRender ==
  /\ pc = "render"
  /\ \E a \in ArgCells, r \in RetCells :
       /\ Len(a) <= MaxCell
       /\ func = [name |-> <<"f">>, args |-> a, return |-> r]
  /\ row = NoRow
  /\ ExtractIdle
  /\ WalkIdle

\* the body of "for func in file_info['functions']"
PrintRow ==
  /\ pc = "render"
  /\ row' = Row(func)
  /\ pc' = "printed"
  /\ UNCHANGED << decl, content, lang, functions, raised,
                  tree_lines, files_data, walked, cur, func >>

NextRender == PrintRow

SpecRender == InitRender /\ [][NextRender]_vars

------------------------------------------------------------------------------
(* Properties                                                              *)

\* the matches of the rule of lang on content, as re.finditer reports them
Matches == IF lang \in DOMAIN PATTERNS THEN FindIter(PATTERNS[lang], content) ELSE << >>

\* group g took part in the match and holds text
HasText(g) == g.on /\ g.txt # << >>

\* the text of the argument capture of a match of the rule of l: the group
\* between the parentheses (of the branch that matched, for javascript)
ArgCapture(l, caps) ==
  IF l \in {"javascript", "typescript"}
    THEN (IF caps[1].on THEN caps[2].txt
          ELSE IF caps[3].on THEN caps[4].txt ELSE caps[6].txt)
    ELSE caps[2].txt

\* the text of the return-type capture, for the rules that have one
RetCapture(l, caps) ==
  IF l \in {"python", "rust", "go"} THEN caps[3].txt ELSE << >>

\* no whitespace at either end, and every whitespace character is one space
\* between two other characters
IsCollapsed(s) ==
  \A k \in 1..Len(s) :
    s[k] \in Whitespace =>
      /\ s[k] = " "
      /\ 1 < k /\ k < Len(s)
      /\ s[k + 1] \notin Whitespace

\* the tree listing has the line of the file named name
Listed(name) == \E k \in 1..Len(tree_lines) : tree_lines[k].name = name

\* the analysis list has an entry for the file named name
Analysed(name) == \E k \in 1..Len(files_data) : files_data[k].path = name

ExampleC     == <<"i","n","t"," ","a","d","d","(","i","n","t"," ","a",","," ","i","n","t"," ","b",")"," ","{">>
ExampleArrow == <<"c","o","n","s","t"," ","s","u","m"," ","="," ","(","a",","," ","b",")"," ","=",">"," ","{">>

\* C1: content that holds one well-formed declaration of the language
\* extract_functions is called with, with or without parameters, yields
\* exactly one signature, and its name is the declared name.
C1_OneSignatureNamedAsDeclared ==
  (pc = "returned" /\ ~raised /\ decl # NoDecl /\ lang = decl.lang) =>
     /\ Len(functions) = 1
     /\ functions[1].name = decl.name

\* C2: when matching raises while a file is extracted, also after matches
\* were collected, the result for that file is empty, the file gets no entry
\* in the analysis list, and the walk is still going on or ended normally.
C2_FailureYieldsNothing ==
  cur.raised =>
     /\ cur.funcs = << >>
     /\ ~Analysed(cur.name)
     /\ pc \in {"walk", "done"}

\* C3: for c and cpp, a match whose three captures all hold text yields the
\* signature with returnType from the first, name from the second and
\* arguments from the third, trimmed and whitespace-collapsed; every match
\* yields a signature; "int add(int a, int b) {" yields add, "int a, int b",
\* int.
C3_CFamilyGroups ==
  (pc = "returned" /\ lang \in {"c", "cpp"}) =>
     /\ Len(functions) <= Len(Matches)
     /\ ~raised => Len(functions) = Len(Matches)
     /\ \A i \in 1..Len(functions) :
          (HasText(Matches[i][1]) /\ HasText(Matches[i][2]) /\ HasText(Matches[i][3])) =>
             functions[i] = [name   |-> Strip(Matches[i][2].txt),
                             args   |-> Collapse(Matches[i][3].txt),
                             return |-> Collapse(Matches[i][1].txt)]
     /\ (content = ExampleC /\ ~raised) =>
          functions = << [name |-> <<"a","d","d">>, args |-> <<"i","n","t"," ","a",","," ","i","n","t"," ","b">>, return |-> <<"i","n","t">>] >>

\* C3 witness: the c rule has been run on "int add(int a, int b) {" and has
\* returned one signature
C3_Witness ==
  /\ pc = "returned" /\ ~raised /\ lang = "c" /\ content = ExampleC
  /\ Len(functions) = 1
  /\ HasText(Matches[1][3])

\* C4: for every language but c, cpp and java, the arguments of each
\* signature are the collapsed argument capture of its match and its
\* returnType the collapsed return-type capture (empty where there is none),
\* also when the argument capture is empty; "const sum = (a, b) => {" yields
\* sum, "a, b", "".
C4_ArgsAndReturnFromCaptures ==
  (pc = "returned" /\ lang \notin {"c", "cpp", "java"}) =>
     /\ \A i \in 1..Len(functions) :
          /\ functions[i].args = Collapse(ArgCapture(lang, Matches[i]))
          /\ functions[i].return = Collapse(RetCapture(lang, Matches[i]))
     /\ (content = ExampleArrow /\ lang = "javascript" /\ ~raised) =>
          functions = << [name |-> <<"s","u","m">>, args |-> <<"a",","," ","b">>, return |-> << >>] >>

\* C5: a file whose extraction returned n >= 1 signatures gets the entry that
\* holds the first min(n, 25) of them in their order: exactly 25 when n > 25,
\* all n otherwise.  A file of d declarations extracted without failure
\* returned d signatures, named in the order of the declarations.
C5_First25InOrder ==
  /\ \A k \in 1..Len(files_data) :
       Len(files_data[k].functions) \in 1..25
  /\ (cur.called /\ ~cur.raised) =>
       /\ Len(cur.funcs) = cur.decls
       /\ \A i \in 1..Len(cur.funcs) : cur.funcs[i].name = NameOf(i)
  /\ (cur.called /\ cur.funcs # << >>) =>
       /\ files_data # << >>
       /\ LET e == files_data[Len(files_data)]
              n == Len(cur.funcs)
          IN /\ e.path = cur.name
             /\ Len(e.functions) = IF n > 25 THEN 25 ELSE n
             /\ \A i \in 1..Len(e.functions) : e.functions[i] = cur.funcs[i]

\* C5 witness: a file of more than 25 declarations was extracted and its
\* entry holds 25 signatures
C5_Witness ==
  /\ cur.called /\ ~cur.raised /\ cur.decls > 25
  /\ Len(cur.funcs) > 25
  /\ files_data # << >>
  /\ files_data[Len(files_data)].path = cur.name
  /\ Len(files_data[Len(files_data)].functions) = 25

\* C6: a visited file whose extension is neither ignored nor mapped to a
\* language is not passed to extract_functions, has its line in the tree
\* listing and no entry in the analysis list; every entry of the analysis
\* list is of a file with a mapped extension.
C6_UnknownExtensionNotExtracted ==
  /\ \A k \in 1..Len(files_data) : files_data[k].path[2] \in DOMAIN LANGUAGE_MAP
  /\ (cur # NoFile /\ cur.ext \notin IGNORE_EXTS /\ cur.ext \notin DOMAIN LANGUAGE_MAP) =>
       /\ ~cur.called
       /\ Listed(cur.name)
       /\ ~Analysed(cur.name)

\* C6 witness: a readable .txt file below the size limit whose content holds
\* declarations has been visited and listed
C6_Witness ==
  /\ cur.ext = ".txt" /\ cur.decls > 0 /\ ~cur.io
  /\ cur.size < MAX_FILE_SIZE_BYTES
  /\ cur.listed /\ Listed(cur.name)

\* C7: a readable file of a known language is passed to extract_functions
\* exactly when its size is 102,400 bytes or less, and is in the tree listing
\* either way.
C7_ExtractedIffWithinCeiling ==
  (cur # NoFile /\ cur.ext \in DOMAIN LANGUAGE_MAP /\ ~cur.io) =>
     /\ cur.called <=> cur.size <= 102400
     /\ Listed(cur.name)

\* C8: arguments and returnType of every returned signature are collapsed (no
\* whitespace at the ends, every whitespace run a single space), and
\* collapsing them again gives them back.
C8_CollapsedAndIdempotent ==
  pc = "returned" =>
     \A i \in 1..Len(functions) :
        /\ IsCollapsed(functions[i].args)
        /\ IsCollapsed(functions[i].return)
        /\ Collapse(functions[i].args) = functions[i].args
        /\ Collapse(functions[i].return) = functions[i].return

\* C8 witness: the python rule returned "a, b" for arguments written over two
\* lines with a tab
C8_Witness ==
  /\ pc = "returned" /\ ~raised /\ lang = "python" /\ decl.lang = "python"
  /\ decl.args = <<"a",",","\n","\t","b">>
  /\ Len(functions) = 1
  /\ functions[1].args = <<"a",","," ","b">>

\* C9: the Inputs cell is the argument text with its bars escaped; a cell
\* longer than 50 characters is printed as its first 47 characters and "..."
\* (50 characters in all), a cell of at most 50 characters in full, the
\* Outputs cell in full, and every vertical bar in a printed cell stands
\* behind a backslash, also in a truncated one.
C9_RowCells ==
  pc = "printed" =>
     LET cell == Escape(func.args) IN
     /\ Len(cell) > 50 =>
          /\ row.inputs = SubSeq(cell, 1, 47) \o <<".", ".", ".">>
          /\ Len(row.inputs) = 50
     /\ Len(cell) <= 50 => row.inputs = cell
     /\ row.outputs = Escape(func.return)
     /\ \A k \in 1..Len(row.inputs) :
          row.inputs[k] = "|" => (k > 1 /\ row.inputs[k - 1] = "\\")
     /\ \A k \in 1..Len(row.outputs) :
          row.outputs[k] = "|" => (k > 1 /\ row.outputs[k - 1] = "\\")

\* C9 witness: a row has been printed whose Inputs cell was longer than 50
\* characters and keeps an escaped bar in its 50 printed characters
C9_Witness ==
  /\ pc = "printed"
  /\ Len(Escape(func.args)) > 50
  /\ Len(row.inputs) = 50
  /\ \E k \in 1..Len(row.inputs) : row.inputs[k] = "|"

\* C10: every returned signature has a name that is not empty after
\* trimming, and only the matches that have a group with text add a
\* signature.
C10_NamesNotEmpty ==
  pc = "returned" =>
     /\ \A i \in 1..Len(functions) : Strip(functions[i].name) # << >>
     /\ LET named == { i \in 1..Len(Matches) :
                         \E g \in 1..Len(Matches[i]) : HasText(Matches[i][g]) }
        IN /\ Len(functions) <= Cardinality(named)
           /\ ~raised => Len(functions) = Cardinality(named)

\* C10 witness: the javascript rule matched an arrow function, whose first
\* group is not set, and returned its signature
C10_Witness ==
  /\ pc = "returned" /\ ~raised /\ lang = "javascript"
  /\ decl.lang = "javascript" /\ decl.style = "arrow"
  /\ Len(functions) = 1
  /\ ~Matches[1][1].on

====
